---- MODULE Spec2Model ----
(***************************************************************************)
(* A model of CrossOriginStorage (src/unnamed/part_001): a cache adapter   *)
(* that looks resources up by the SHA-256 digest declared in a Git LFS     *)
(* pointer file (match / _getFileHash) and stores them under the digest    *)
(* computed from the payload (put / _getBlobHash).                         *)
(*                                                                         *)
(* Strings are sequences of one-character strings, so that the regular     *)
(* expressions and String methods of the source are computed character by  *)
(* character.  The only line terminator in the modelled texts is "\n".     *)
(***************************************************************************)
EXTENDS Integers, Sequences, FiniteSets, TLC

\* ------------------------------------------------------------------------
\* Bounds of the model
\* ------------------------------------------------------------------------
\* number of calls (match or put) that may be started, each in its own slot
MaxCalls == 2
\* number of lines of a companion text in the resolver specification
MaxLines == 3
\* number of bytes of a digest (crypto.subtle.digest yields 32 for SHA-256)
DigestLen == 1

\* ------------------------------------------------------------------------
\* String literals of the source
\* ------------------------------------------------------------------------
HASH_ALGORITHM == "SHA-256"

NL == "\n"

\* "oid sha256:"
OidMarker == <<"o", "i", "d", " ", "s", "h", "a", "2", "5", "6", ":">>

\* "/resolve/main/onnx/", the source of the RegExp tested against the url
EligiblePattern ==
    <<"/", "r", "e", "s", "o", "l", "v", "e", "/", "m", "a", "i", "n", "/",
      "o", "n", "n", "x", "/">>

\* "/resolve/", the source of the RegExp replaced in the url
ResolveSegment == <<"/", "r", "e", "s", "o", "l", "v", "e", "/">>

\* "/raw/"
RawSegment == <<"/", "r", "a", "w", "/">>

HexDigits ==
    <<"0", "1", "2", "3", "4", "5", "6", "7", "8", "9",
      "a", "b", "c", "d", "e", "f">>

LowerHexChars == {HexDigits[i] : i \in 1..16}

UpperHexChars == {"A", "B", "C", "D", "E", "F"}

HexChars == LowerHexChars \cup UpperHexChars

\* the characters \w matches, among those that occur in the modelled texts
WordChars ==
    HexChars \cup
    {"g", "h", "i", "j", "k", "l", "m", "n", "o", "p", "q", "r", "s", "t",
     "u", "v", "w", "x", "y", "z", "_"}

\* ------------------------------------------------------------------------
\* Values
\* ------------------------------------------------------------------------
\* JavaScript null, undefined and strings
Null == [k |-> "null"]

Undefined == [k |-> "undefined"]

Str(s) == [k |-> "string", v |-> s]

\* ------------------------------------------------------------------------
\* String primitives
\* ------------------------------------------------------------------------
\* does p occur in s at position i (1-based)?
StartsWithAt(s, i, p) ==
    /\ i >= 1
    /\ i + Len(p) - 1 <= Len(s)
    /\ \A k \in 1..Len(p) : s[i + k - 1] = p[k]

\* String.prototype.includes / RegExp.prototype.test for a literal pattern
Includes(s, p) == \E i \in 1..Len(s) : StartsWithAt(s, i, p)

\* position of the first occurrence of p in s, 0 if there is none
FirstIndexOf(s, p) ==
    IF Includes(s, p)
    THEN CHOOSE i \in 1..Len(s) :
            /\ StartsWithAt(s, i, p)
            /\ \A j \in 1..(i - 1) : ~StartsWithAt(s, j, p)
    ELSE 0

\* String.prototype.replace with a non-global literal RegExp: the first
\* occurrence only
ReplaceFirst(s, p, r) ==
    LET i == FirstIndexOf(s, p)
    IN  IF i = 0 THEN s
        ELSE SubSeq(s, 1, i - 1) \o r \o SubSeq(s, i + Len(p), Len(s))

\* ------------------------------------------------------------------------
\* _getBlobHash: the digest of a payload as a lowercase hex string
\* ------------------------------------------------------------------------
RECURSIVE SumBytes(_)
SumBytes(bytes) ==
    IF bytes = <<>> THEN 0 ELSE Head(bytes) + SumBytes(Tail(bytes))

\* crypto.subtle.digest("SHA-256", arrayBuffer): a deterministic function of
\* the bytes that yields DigestLen bytes.  The stand-in has collisions
\* (payloads with the same byte sum), which SHA-256 has only in theory.
SubtleDigest(bytes) ==
    [i \in 1..DigestLen |-> (SumBytes(bytes) + 37 * (i - 1)) % 256]

\* Number.prototype.toString(16)
ToString16(byte) ==
    IF byte < 16
    THEN <<HexDigits[byte + 1]>>
    ELSE <<HexDigits[(byte \div 16) + 1], HexDigits[(byte % 16) + 1]>>

\* String.prototype.padStart(2, "0")
PadStart2(s) == IF Len(s) < 2 THEN <<"0">> \o s ELSE s

\* hashArray.map((byte) => byte.toString(16).padStart(2, "0")).join("")
RECURSIVE HashHex(_)
HashHex(hashArray) ==
    IF hashArray = <<>> THEN <<>>
    ELSE PadStart2(ToString16(Head(hashArray))) \o HashHex(Tail(hashArray))

\* the value _getBlobHash resolves to
GetBlobHash(blob) ==
    [algorithm |-> "SHA-256", value |-> HashHex(SubtleDigest(blob))]

\* ------------------------------------------------------------------------
\* _getFileHash: the digest declared by the companion pointer text
\* ------------------------------------------------------------------------
\* IsEligible with the pattern cut down to /\/resolve\//
IsEligibleAnyResolve(url) == Includes(url, ResolveSegment)

\* /\/resolve\/main\/onnx\//.test(url)
IsEligible(url) == Includes(url, EligiblePattern)

\* url.replace(/\/resolve\//, "/raw/")
RawUrl(url) == ReplaceFirst(url, ResolveSegment, RawSegment)

\* position of the first "\n" of s at or after i, 0 if there is none
FirstNewline(s, i) ==
    IF \E j \in i..Len(s) : s[j] = NL
    THEN CHOOSE j \in i..Len(s) :
            /\ s[j] = NL
            /\ \A k \in i..(j - 1) : s[k] # NL
    ELSE 0

\* length of the longest run of \w characters of s that starts at i
WordRunLen(s, i) ==
    IF i > Len(s) \/ s[i] \notin WordChars THEN 0
    ELSE CHOOSE n \in 1..(Len(s) - i + 1) :
            /\ \A k \in i..(i + n - 1) : s[k] \in WordChars
            /\ (i + n > Len(s) \/ s[i + n] \notin WordChars)

\* position of the last character of the line that starts at i (i - 1 when
\* the line is empty): where the lazy .*? followed by $ stops under /m
EndOfLine(s, i) ==
    LET j == FirstNewline(s, i)
    IN  IF j = 0 THEN Len(s) ELSE j - 1

\* One attempt of /.*?\n^oid sha256:(\w+)\n.*?$/m at position i of s.
\*   .*?            the rest of the line of i ("." matches no "\n")
\*   \n^oid sha256: the next line starts with the marker
\*   (\w+)\n        the longest run of word characters, ending its line
\*   .*?$           the whole of the line after it
\* ok: whether it matches; cap: group 1; last: the last matched position.
OidMatchAt(s, i) ==
    LET j == FirstNewline(s, i)
        w == j + 1 + Len(OidMarker)
        n == WordRunLen(s, w)
    IN  IF /\ j # 0
           /\ StartsWithAt(s, j + 1, OidMarker)
           /\ n >= 1
           /\ w + n <= Len(s)
           /\ s[w + n] = NL
        THEN [ok |-> TRUE, cap |-> SubSeq(s, w, w + n - 1),
              last |-> EndOfLine(s, w + n + 1)]
        ELSE [ok |-> FALSE, cap |-> <<>>, last |-> 0]

\* text.replace(/.*?\n^oid sha256:(\w+)\n.*?$/gm, "$1") from position i on:
\* every match, leftmost first, is replaced by its group 1 and everything
\* that no match covers is kept
RECURSIVE ReplaceOidFrom(_, _)
ReplaceOidFrom(s, i) ==
    IF i > Len(s) THEN <<>>
    ELSE LET m == OidMatchAt(s, i)
         IN  IF m.ok
             THEN m.cap \o ReplaceOidFrom(s, m.last + 1)
             ELSE <<s[i]>> \o ReplaceOidFrom(s, i + 1)

ReplaceOid(text) == ReplaceOidFrom(text, 1)

\* ExtractHash without the `if (!text.includes("oid sha256:"))` early return
ExtractHashNoGuard(text) ==
    LET r == ReplaceOid(text)
    IN  IF r = <<>> THEN Null ELSE Str(r)

\* the part of _getFileHash that follows the fetch of the companion text
ExtractHash(text) ==
    IF ~Includes(text, OidMarker) THEN Null
    ELSE LET r == ReplaceOid(text)
         IN  IF r = <<>> THEN Null ELSE Str(r)

\* ------------------------------------------------------------------------
\* Inputs
\* ------------------------------------------------------------------------
\* response payloads, as byte sequences; <<1, 2>> and <<2, 1>> have the same
\* stand-in digest
Payloads == {<<1, 2>>, <<2, 1>>, <<171>>}

\* "h/resolve/main/onnx/m": an eligible location
UrlOnnx == <<"h">> \o EligiblePattern \o <<"m">>

\* "g/resolve/main/onnx/m": the same resource at another origin
UrlMirror == <<"g">> \o EligiblePattern \o <<"m">>

\* "h/resolve/main/c": no onnx/ segment
UrlConfig == <<"h">> \o ResolveSegment \o <<"m", "a", "i", "n", "/", "c">>

\* "h/resolve/x/resolve/main/onnx/m": /resolve/ occurs before the pattern
UrlNested == <<"h">> \o ResolveSegment \o <<"x">> \o EligiblePattern \o <<"m">>

Urls == {UrlOnnx, UrlMirror, UrlConfig, UrlNested}

ToUpper(ch) ==
    CASE ch = "a" -> "A" [] ch = "b" -> "B" [] ch = "c" -> "C"
      [] ch = "d" -> "D" [] ch = "e" -> "E" [] ch = "f" -> "F"
      [] OTHER -> ch

ToLower(ch) ==
    CASE ch = "A" -> "a" [] ch = "B" -> "b" [] ch = "C" -> "c"
      [] ch = "D" -> "d" [] ch = "E" -> "e" [] ch = "F" -> "f"
      [] OTHER -> ch

UpperCase(s) == [i \in 1..Len(s) |-> ToUpper(s[i])]

LowerCase(s) == [i \in 1..Len(s) |-> ToLower(s[i])]

\* the hex digests of the payloads
PayloadHexes == {GetBlobHash(p).value : p \in Payloads}

\* "v 1", for the "version https://git-lfs.github.com/spec/v1" line
VersionLine == <<"v", " ", "1">>

\* "size 2"
SizeLine == <<"s", "i", "z", "e", " ", "2">>

OidLine(hex) == OidMarker \o hex

\* the lines the companion texts are made of: the lines of a pointer file,
\* an oid in upper case, one that is not hex, one that is too short, and the
\* marker in the middle of a line
Lines ==
    {VersionLine, SizeLine}
    \cup {OidLine(h) : h \in PayloadHexes}
    \cup {OidLine(UpperCase(GetBlobHash(<<171>>).value))}
    \cup {OidLine(<<"z", "z">>), OidLine(<<"a">>)}
    \cup {<<"x">> \o OidLine(GetBlobHash(<<171>>).value)}

RECURSIVE JoinLines(_)
JoinLines(ls) ==
    IF ls = <<>> THEN <<>>
    ELSE IF Len(ls) = 1 THEN Head(ls)
    ELSE Head(ls) \o <<NL>> \o JoinLines(Tail(ls))

\* a text of the given lines, with or without a final "\n"
TextOf(ls, final) == JoinLines(ls) \o (IF final THEN <<NL>> ELSE <<>>)

\* every text of at most MaxLines lines
Texts ==
    {TextOf(ls, final) :
        ls \in UNION {[1..n -> Lines] : n \in 0..MaxLines},
        final \in BOOLEAN}

\* the pointer file of a payload, as Git LFS writes it
PointerText(p) ==
    TextOf(<<VersionLine, OidLine(GetBlobHash(p).value), SizeLine>>, TRUE)

\* the locations match is called with while calls run concurrently: the
\* mirror of the location put is called with, and an ineligible one
MatchUrls == {UrlMirror, UrlConfig}

\* the locations of the requests put is called with
PutUrls == {UrlOnnx, UrlConfig}

\* the companion texts a fetch can yield while calls run concurrently: a
\* pointer file as Git LFS writes it, pointer files without the final "\n",
\* a text without the marker and one with the marker in the middle of a line
ServedTexts ==
    {PointerText(<<1, 2>>)}
    \cup {TextOf(<<VersionLine, OidLine(GetBlobHash(p).value), SizeLine>>,
                 FALSE) : p \in {<<1, 2>>, <<171>>}}
    \cup {TextOf(<<VersionLine, SizeLine>>, TRUE)}
    \cup {TextOf(<<VersionLine,
                   <<"x">> \o OidLine(GetBlobHash(<<171>>).value)>>, TRUE)}

\* the statuses of the response to the fetch: code only reads its body
ServedStatuses == {TRUE}

\* ------------------------------------------------------------------------
\* Settled values of the asynchronous functions
\* ------------------------------------------------------------------------
Pending == [k |-> "pending"]

\* new Response(blob)
Response(blob) == [k |-> "response", body |-> blob]

\* a rejection that left the function at the given step
Rejected(step) == [k |-> "rejected", at |-> step]

\* { algorithm: HASH_ALGORITHM, value: hashValue }
MatchHash(hashValue) == [algorithm |-> HASH_ALGORITHM, value |-> hashValue]

\* what the fetch of the companion text and the read of its body can do:
\* fetch rejects, response.text() rejects, or a text arrives, with or without
\* a success status
FetchOutcomes(texts, statuses) ==
    {[k |-> "fetchRejects"], [k |-> "textRejects"]}
    \cup {[k |-> "text", ok |-> ok, text |-> t] :
             ok \in statuses, t \in texts}

\* _getFileHash after `await fetch(rawUrl).then((response) => response.text())`
\* settles: there is no catch around it, so a rejection is the rejection of
\* _getFileHash; the status of the response is not looked at
GetFileHashSettled(outcome) ==
    IF outcome.k = "text"
    THEN [k |-> "returns", v |-> ExtractHash(outcome.text)]
    ELSE [k |-> "rejects", v |-> Null]

\* !hashValue
IsFalsy(hashValue) ==
    hashValue = Null \/ hashValue = Undefined \/ hashValue = Str(<<>>)

\* MatchCatch rethrowing what it caught
MatchCatchRethrows(step) == Rejected(step)

\* the catch block of match: `return undefined`
MatchCatch(step) == Undefined

\* PutThrow with the write not awaited: its rejection is lost
PutThrowWriteLost(step) ==
    IF step = "write" THEN Undefined ELSE Rejected(step)

\* put has no catch block: a rejected await rejects put
PutThrow(step) == Rejected(step)

\* ------------------------------------------------------------------------
\* State
\* ------------------------------------------------------------------------
VARIABLES
    \* "crossOriginStorage" in navigator
    available,
    \* the backend: a set of entries [hash, content, finalized], one per hash
    store,
    \* the calls of match and put, one per slot
    calls,
    \* for each hash, [hash, payload] of the last put that succeeded for it
    \* (a record of the past; calls[c].seen is its value when call c started)
    lastPut,
    \* a call of _getFileHash by itself
    res

vars == <<available, store, calls, lastPut, res>>

Calls == 1..MaxCalls

\* ops is the sequence of the operations the call has started, in order
IdleCall ==
    [op |-> "none", pc |-> "idle", url |-> <<>>, payload |-> <<>>,
     outcome |-> Pending, hashValue |-> Pending, blob |-> <<>>,
     hash |-> Null, stream |-> "none", buf |-> <<>>, fetched |-> <<>>,
     backendCalls |-> 0, err |-> "none", seen |-> {}, ops |-> <<>>,
     result |-> Pending]

IdleRes ==
    [pc |-> "idle", url |-> <<>>, outcome |-> Pending, fetched |-> <<>>,
     result |-> Pending]

Init ==
    /\ available \in BOOLEAN
    /\ store = {}
    /\ calls = [c \in Calls |-> IdleCall]
    /\ lastPut = {}
    /\ res = IdleRes

\* ------------------------------------------------------------------------
\* The backend (navigator.crossOriginStorage)
\* ------------------------------------------------------------------------
\* The backend is the host's: the source only calls it.  Its entries behave
\* as file handles do: a handle requested with create exists from then on
\* with empty content, a writable stream collects what is written, and
\* close() makes it the content of the entry.  Whether an entry that no
\* close() has finalized is visible to a reader is the backend's choice: a
\* request for its handle is either refused or answered with the entry.  A
\* stream whose write() or close() failed is either put in error by the
\* backend or left open.
HasEntry(st, h) == \E e \in st : e.hash = h

EntryOf(st, h) == CHOOSE e \in st : e.hash = h

\* RequestHandles creating the entry, as with { create: true }
RequestHandlesCreating(st, h) ==
    IF HasEntry(st, h) THEN st
    ELSE st \cup {[hash |-> h, content |-> <<>>, finalized |-> FALSE]}

\* requestFileHandles([hash]), without options: the backend is left as it is
RequestHandles(st, h) == st

\* requestFileHandles([hash], { create: true }): the entry exists afterwards
CreateEntry(st, h) ==
    IF HasEntry(st, h) THEN st
    ELSE st \cup {[hash |-> h, content |-> <<>>, finalized |-> FALSE]}

\* CommitEntry when put does not close the stream: nothing is committed
CommitEntryNotClosed(st, h, bytes) == st

\* CommitEntry writing the bytes into every entry of the backend
CommitEntryClobbers(st, h, bytes) ==
    {[hash |-> e.hash, content |-> bytes, finalized |-> TRUE] : e \in st}

\* writableStream.close(): what was written replaces the content
CommitEntry(st, h, bytes) ==
    {e \in st : e.hash # h}
    \cup {[hash |-> h, content |-> bytes, finalized |-> TRUE]}

RecordPut(lp, h, bytes) ==
    {r \in lp : r.hash # h} \cup {[hash |-> h, payload |-> bytes]}

\* static isAvailable
IsAvailable == available

\* the slots are taken in order
CanStart(c) ==
    /\ calls[c].pc = "idle"
    /\ \A d \in Calls : d < c => calls[d].pc # "idle"

\* ------------------------------------------------------------------------
\* match
\* ------------------------------------------------------------------------
\* match(request) up to its first await: _getFileHash tests the url and, if
\* it is eligible, fetches the raw url; otherwise it returns null and match
\* returns undefined
MatchCall(c, url) ==
    /\ CanStart(c)
    /\ calls' =
         [calls EXCEPT ![c] =
            IF IsEligible(url)
            THEN [@ EXCEPT !.op = "match", !.url = url, !.pc = "fetch",
                           !.seen = lastPut, !.fetched = <<RawUrl(url)>>,
                           !.ops = <<"fetch">>]
            ELSE [@ EXCEPT !.op = "match", !.url = url, !.pc = "done",
                           !.seen = lastPut, !.hashValue = Null,
                           !.result = Undefined]]
    /\ UNCHANGED <<available, store, lastPut, res>>

\* the call of match after _getFileHash returned hashValue
MatchAfterHash(call, hashValue) ==
    IF IsFalsy(hashValue)
    THEN [call EXCEPT !.pc = "done", !.hashValue = hashValue,
                      !.result = Undefined]
    ELSE IF ~IsAvailable
    THEN \* navigator.crossOriginStorage is undefined: a TypeError in the try
         [call EXCEPT !.pc = "done", !.hashValue = hashValue,
                      !.hash = MatchHash(hashValue.v),
                      !.err = "unavailable",
                      !.result = MatchCatch("unavailable")]
    ELSE [call EXCEPT !.pc = "handle", !.hashValue = hashValue,
                      !.hash = MatchHash(hashValue.v),
                      !.backendCalls = @ + 1,
                      !.ops = Append(@, "requestFileHandles")]

\* the fetch of the companion text settles
MatchFetchSettle(c) ==
    /\ calls[c].op = "match"
    /\ calls[c].pc = "fetch"
    /\ \E outcome \in FetchOutcomes(ServedTexts, ServedStatuses) :
         LET settled == GetFileHashSettled(outcome)
             call == [calls[c] EXCEPT !.outcome = outcome]
         IN  calls' =
               [calls EXCEPT ![c] =
                  IF settled.k = "rejects"
                  THEN [call EXCEPT !.pc = "done", !.err = outcome.k,
                                    !.result = Rejected(outcome.k)]
                  ELSE MatchAfterHash(call, settled.v)]
    /\ UNCHANGED <<available, store, lastPut, res>>

\* requestFileHandles([hash]) settles: a rejection if the backend refuses or
\* fails, or if it has no entry for the hash; otherwise a handle, and match
\* goes on to handle.getFile()
MatchHandleSettle(c) ==
    /\ calls[c].op = "match"
    /\ calls[c].pc = "handle"
    /\ \E granted \in BOOLEAN :
         calls' =
           [calls EXCEPT ![c] =
              IF ~granted
              THEN [@ EXCEPT !.pc = "done", !.err = "handle",
                             !.result = MatchCatch("handle")]
              ELSE IF ~HasEntry(store, calls[c].hash)
              THEN [@ EXCEPT !.pc = "done", !.err = "notFound",
                             !.result = MatchCatch("notFound")]
              ELSE [@ EXCEPT !.pc = "getFile", !.backendCalls = @ + 1,
                             !.ops = Append(@, "getFile")]]
    /\ store' = RequestHandles(store, calls[c].hash)
    /\ UNCHANGED <<available, lastPut, res>>

\* handle.getFile() settles
MatchGetFileSettle(c) ==
    /\ calls[c].op = "match"
    /\ calls[c].pc = "getFile"
    /\ \E readable \in BOOLEAN :
         calls' =
           [calls EXCEPT ![c] =
              IF readable
              THEN [@ EXCEPT !.pc = "done",
                             !.blob = EntryOf(store, calls[c].hash).content,
                             !.result =
                                Response(EntryOf(store, calls[c].hash).content)]
              ELSE [@ EXCEPT !.pc = "done", !.err = "getFile",
                             !.result = MatchCatch("getFile")]]
    /\ UNCHANGED <<available, store, lastPut, res>>

\* ------------------------------------------------------------------------
\* put
\* ------------------------------------------------------------------------
\* PutNextOp with close() called before write()
PutNextOpCloseFirst(pc) ==
    CASE pc = "start" -> "blob"
      [] pc = "blob" -> "digest"
      [] pc = "digest" -> "requestFileHandles:create"
      [] pc = "handle" -> "createWritable"
      [] pc = "writable" -> "close"
      [] pc = "write" -> "write"

\* the operation put starts when the await it is at has been fulfilled:
\* response.blob(), _getBlobHash(blob), requestFileHandles([hash],
\* { create: true }), handle.createWritable(), writableStream.write(blob),
\* writableStream.close()
PutNextOp(pc) ==
    CASE pc = "start" -> "blob"
      [] pc = "blob" -> "digest"
      [] pc = "digest" -> "requestFileHandles:create"
      [] pc = "handle" -> "createWritable"
      [] pc = "writable" -> "write"
      [] pc = "write" -> "close"

\* PutKey taking the hash the pointer file of the request would declare
PutKeyFromRequest(call) ==
    IF IsEligible(call.url)
    THEN MatchHash(GetBlobHash(<<171>>).value)
    ELSE GetBlobHash(call.blob)

\* the hash put asks the handle for: `await this._getBlobHash(blob)`
PutKey(call) == GetBlobHash(call.blob)

\* put(request, response) up to its first await: response.blob()
PutCall(c, url, payload) ==
    /\ CanStart(c)
    /\ calls' = [calls EXCEPT ![c] =
                   [@ EXCEPT !.op = "put", !.url = url, !.payload = payload,
                             !.pc = "blob",
                             !.ops = <<PutNextOp("start")>>]]
    /\ UNCHANGED <<available, store, lastPut, res>>

\* the states the backend can leave a stream in whose write() or close()
\* it rejected; put does not touch the stream after the rejection
StreamsAfterFailure == {"open", "errored"}

\* a step of put fails
PutFails(call, step) ==
    [call EXCEPT !.pc = "done", !.err = step, !.result = PutThrow(step)]

\* response.blob() settles; _getBlobHash starts with blob.arrayBuffer()
PutBlobSettle(c) ==
    /\ calls[c].op = "put"
    /\ calls[c].pc = "blob"
    /\ \E ok \in BOOLEAN :
         calls' =
           [calls EXCEPT ![c] =
              IF ok
              THEN [@ EXCEPT !.pc = "digest", !.blob = calls[c].payload,
                             !.ops = Append(@, PutNextOp("blob"))]
              ELSE PutFails(@, "blob")]
    /\ UNCHANGED <<available, store, lastPut, res>>

\* blob.arrayBuffer() and crypto.subtle.digest settle; put goes on to
\* requestFileHandles([hash], { create: true })
PutDigestSettle(c) ==
    /\ calls[c].op = "put"
    /\ calls[c].pc = "digest"
    /\ \E ok \in BOOLEAN :
         calls' =
           [calls EXCEPT ![c] =
              IF ~ok THEN PutFails(@, "digest")
              ELSE IF ~IsAvailable
              THEN PutFails([@ EXCEPT !.hash = PutKey(calls[c])],
                            "unavailable")
              ELSE [@ EXCEPT !.pc = "handle",
                             !.hash = PutKey(calls[c]),
                             !.backendCalls = @ + 1,
                             !.ops = Append(@, PutNextOp("digest"))]]
    /\ UNCHANGED <<available, store, lastPut, res>>

\* requestFileHandles settles; put goes on to handle.createWritable()
PutHandleSettle(c) ==
    /\ calls[c].op = "put"
    /\ calls[c].pc = "handle"
    /\ \E ok \in BOOLEAN :
         IF ok
         THEN /\ store' = CreateEntry(store, calls[c].hash)
              /\ calls' = [calls EXCEPT ![c] =
                             [@ EXCEPT !.pc = "writable",
                                       !.backendCalls = @ + 1,
                                       !.ops = Append(@, PutNextOp("handle"))]]
         ELSE /\ store' = store
              /\ calls' = [calls EXCEPT ![c] = PutFails(@, "handle")]
    /\ UNCHANGED <<available, lastPut, res>>

\* createWritable() settles; put goes on to writableStream.write(blob)
PutWritableSettle(c) ==
    /\ calls[c].op = "put"
    /\ calls[c].pc = "writable"
    /\ \E ok \in BOOLEAN :
         calls' =
           [calls EXCEPT ![c] =
              IF ok
              THEN [@ EXCEPT !.pc = "write", !.stream = "open",
                             !.backendCalls = @ + 1,
                             !.ops = Append(@, PutNextOp("writable"))]
              ELSE PutFails(@, "writable")]
    /\ UNCHANGED <<available, store, lastPut, res>>

\* write(blob) settles; put goes on to writableStream.close()
PutWriteSettle(c) ==
    /\ calls[c].op = "put"
    /\ calls[c].pc = "write"
    /\ \E ok \in BOOLEAN, left \in StreamsAfterFailure :
         calls' =
           [calls EXCEPT ![c] =
              IF ok
              THEN [@ EXCEPT !.pc = "close", !.buf = calls[c].blob,
                             !.backendCalls = @ + 1,
                             !.ops = Append(@, PutNextOp("write"))]
              ELSE PutFails([@ EXCEPT !.stream = left], "write")]
    /\ UNCHANGED <<available, store, lastPut, res>>

\* close() settles: the written bytes become the content of the entry and
\* put returns
PutCloseSettle(c) ==
    /\ calls[c].op = "put"
    /\ calls[c].pc = "close"
    /\ \E ok \in BOOLEAN, left \in StreamsAfterFailure :
         IF ok
         THEN /\ store' = CommitEntry(store, calls[c].hash, calls[c].buf)
              /\ lastPut' = RecordPut(lastPut, calls[c].hash, calls[c].blob)
              /\ calls' = [calls EXCEPT ![c] =
                             [@ EXCEPT !.pc = "done", !.stream = "closed",
                                       !.result = Undefined]]
         ELSE /\ store' = store
              /\ lastPut' = lastPut
              /\ calls' = [calls EXCEPT ![c] =
                             PutFails([@ EXCEPT !.stream = left], "close")]
    /\ UNCHANGED <<available, res>>

\* ------------------------------------------------------------------------
\* _getFileHash called by itself
\* ------------------------------------------------------------------------
ResolveCall(url) ==
    /\ res.pc = "idle"
    /\ res' =
         IF IsEligible(url)
         THEN [res EXCEPT !.url = url, !.pc = "fetch",
                          !.fetched = <<RawUrl(url)>>]
         ELSE [res EXCEPT !.url = url, !.pc = "done",
                          !.result = [k |-> "returns", v |-> Null]]
    /\ UNCHANGED <<available, store, calls, lastPut>>

ResolveFetchSettle ==
    /\ res.pc = "fetch"
    /\ \E outcome \in FetchOutcomes(Texts, BOOLEAN) :
         res' = [res EXCEPT !.pc = "done", !.outcome = outcome,
                            !.result = GetFileHashSettled(outcome)]
    /\ UNCHANGED <<available, store, calls, lastPut>>

\* ------------------------------------------------------------------------
\* Specifications
\* ------------------------------------------------------------------------
\* calls of match and put, interleaved at their awaits
Next ==
    \/ \E c \in Calls, url \in MatchUrls : MatchCall(c, url)
    \/ \E c \in Calls : MatchFetchSettle(c)
    \/ \E c \in Calls : MatchHandleSettle(c)
    \/ \E c \in Calls : MatchGetFileSettle(c)
    \/ \E c \in Calls, url \in PutUrls, payload \in Payloads :
          PutCall(c, url, payload)
    \/ \E c \in Calls : PutBlobSettle(c)
    \/ \E c \in Calls : PutDigestSettle(c)
    \/ \E c \in Calls : PutHandleSettle(c)
    \/ \E c \in Calls : PutWritableSettle(c)
    \/ \E c \in Calls : PutWriteSettle(c)
    \/ \E c \in Calls : PutCloseSettle(c)

Spec == Init /\ [][Next]_vars

\* one call of _getFileHash, over every text of at most MaxLines lines
NextHash ==
    \/ \E url \in Urls : ResolveCall(url)
    \/ ResolveFetchSettle

SpecHash == Init /\ [][NextHash]_vars

\* ------------------------------------------------------------------------
\* Vocabulary of the properties
\* ------------------------------------------------------------------------
\* the failures the backend can answer a call of match with
BackendFailures == {"unavailable", "handle", "getFile"}

\* number of characters of a hex digest (64 for SHA-256)
HexLen == 2 * DigestLen

IsHex(s) == Len(s) >= 1 /\ \A i \in 1..Len(s) : s[i] \in HexChars

LineStartsAt(text, i) == i = 1 \/ text[i - 1] = NL

\* what follows "oid sha256:" on the lines of text that start with it
OidValues(text) ==
    {SubSeq(text, i + Len(OidMarker), EndOfLine(text, i)) :
        i \in {j \in 1..Len(text) :
                 LineStartsAt(text, j) /\ StartsWithAt(text, j, OidMarker)}}

Returns(v) == [k |-> "returns", v |-> v]

\* ------------------------------------------------------------------------
\* Properties
\* ------------------------------------------------------------------------
\* C1: once put has succeeded for a payload P, a match started later whose
\* companion text declares `oid sha256:<d>`, d being the hex digest put
\* computed for P, returns a response whose payload is P (unless the backend
\* itself fails the call).
C1_CrossLocationReuse ==
    [][\A c \in Calls : \A r \in lastPut :
          ( /\ calls[c].op = "match"
            /\ calls[c].pc # "done"
            /\ calls'[c].pc = "done"
            /\ r \in calls[c].seen
            /\ calls'[c].outcome.k = "text"
            /\ OidValues(calls'[c].outcome.text) = {r.hash.value} )
          => \/ calls'[c].err \in BackendFailures
             \/ calls'[c].result = Response(r.payload)]_vars

\* C2: when match reaches the backend with a ContentHash equal to the one
\* the last successful put computed, it returns the payload of that put,
\* byte for byte (unless the backend itself fails the call).
C2_RoundTrip ==
    [][\A c \in Calls : \A r \in lastPut :
          ( /\ calls[c].op = "match"
            /\ calls[c].pc \in {"handle", "getFile"}
            /\ calls'[c].pc = "done"
            /\ calls[c].hash = r.hash )
          => \/ calls'[c].err \in BackendFailures
             \/ calls'[c].result = Response(r.payload)]_vars

\* a match started after a put succeeded has returned the payload of the put
C2_Witness ==
    \E c \in Calls : \E r \in calls[c].seen :
        /\ calls[c].op = "match"
        /\ calls[c].pc = "done"
        /\ calls[c].hash = r.hash
        /\ r.payload # <<>>
        /\ calls[c].result = Response(r.payload)

\* C3: whenever the handle request or the read of the handle fails (the API
\* is absent, there is no content under the hash, the backend refuses or
\* fails), match resolves to undefined; it does not reject.
C3_MatchAbsorbsBackendFailure ==
    \A c \in Calls :
        ( /\ calls[c].op = "match"
          /\ calls[c].pc = "done"
          /\ calls[c].err \in BackendFailures \cup {"notFound"} )
        => calls[c].result = Undefined

\* a match found the entry a put had finalized, the read of its handle
\* failed, and match returned undefined
C3_Witness ==
    \E c \in Calls :
        /\ calls[c].op = "match" /\ calls[c].pc = "done"
        /\ calls[c].err = "getFile" /\ calls[c].result = Undefined
        /\ EntryOf(store, calls[c].hash).finalized

\* C4: when the fetch of the companion text fails (the fetch rejects, or the
\* body cannot be read as text), _getFileHash returns null and match resolves
\* to undefined.
C4_FetchFailureIsMiss ==
    \A c \in Calls :
        ( /\ calls[c].op = "match"
          /\ calls[c].pc = "done"
          /\ calls[c].outcome.k \in {"fetchRejects", "textRejects"} )
        => /\ calls[c].hashValue = Null
           /\ calls[c].result = Undefined

\* C5: a failure at any step of put rejects put, and put resolves only when
\* the payload is the finalized content of the entry of its digest.
C5_PutFailurePropagates ==
    [][\A c \in Calls :
          ( /\ calls[c].op = "put"
            /\ calls[c].pc # "done"
            /\ calls'[c].pc = "done" )
          => IF calls'[c].err # "none"
             THEN calls'[c].result.k = "rejected"
             ELSE /\ calls'[c].result = Undefined
                  /\ calls'[c].stream = "closed"
                  /\ [hash |-> GetBlobHash(calls[c].payload),
                      content |-> calls[c].payload,
                      finalized |-> TRUE] \in store']_vars

\* one put was rejected by a failed close and left the entry unfinalized,
\* another one was rejected before it reached the backend
C5_Witness ==
    \E c, d \in Calls :
        /\ calls[c].op = "put" /\ calls[c].pc = "done"
        /\ calls[c].err = "close" /\ calls[c].result.k = "rejected"
        /\ ~EntryOf(store, calls[c].hash).finalized
        /\ calls[d].op = "put" /\ calls[d].pc = "done"
        /\ calls[d].err \in {"blob", "digest"}
        /\ calls[d].result.k = "rejected"

\* C6: if isAvailable reports the backend absent, every match returns
\* undefined, every put fails, and neither calls the backend.
C6_AbsentBackend ==
    ~IsAvailable =>
        \A c \in Calls :
            calls[c].pc = "done" =>
                /\ calls[c].backendCalls = 0
                /\ calls[c].op = "match" => calls[c].result = Undefined
                /\ calls[c].op = "put" => calls[c].result.k = "rejected"

\* C7: for an eligible location whose companion text has a line
\* `oid sha256:<hex>`, with or without lines before and after it,
\* _getFileHash returns exactly <hex> in lower case.
C7_ReturnsDeclaredHex ==
    ( /\ res.pc = "done"
      /\ Includes(res.url, EligiblePattern)
      /\ res.outcome.k = "text" )
    => \A h \in OidValues(res.outcome.text) :
          (IsHex(h) /\ OidValues(res.outcome.text) = {h})
          => res.result = Returns(Str(LowerCase(h)))

\* C8: _getFileHash returns a hash only when the companion text has a whole
\* line `oid sha256:<HexLen hex characters>`.
C8_HashOnlyFromPointerRecord ==
    ( /\ res.pc = "done"
      /\ res.result.k = "returns"
      /\ res.result.v # Null )
    => \E h \in OidValues(res.outcome.text) : IsHex(h) /\ Len(h) = HexLen

\* C9: for an eligible location whose companion text does not contain
\* "oid sha256:", _getFileHash returns null.
C9_NoMarkerIsNull ==
    ( /\ res.pc = "done"
      /\ Includes(res.url, EligiblePattern)
      /\ res.outcome.k = "text"
      /\ \A i \in 1..Len(res.outcome.text) :
            ~StartsWithAt(res.outcome.text, i, OidMarker) )
    => res.result = Returns(Null)

\* _getFileHash has returned null for a text of several lines without the
\* marker
C9_Witness ==
    /\ res.pc = "done"
    /\ res.outcome.k = "text"
    /\ res.outcome.text = TextOf(<<VersionLine, SizeLine>>, TRUE)
    /\ res.result = Returns(Null)

\* C10: for a location without /resolve/main/onnx/, _getFileHash returns null
\* without a fetch and match returns undefined without a call to the backend.
C10_IneligibleIsImmediateMiss ==
    \A c \in Calls :
        ( /\ calls[c].op = "match"
          /\ \A i \in 1..Len(calls[c].url) :
                ~StartsWithAt(calls[c].url, i, EligiblePattern) )
        => /\ calls[c].pc = "done"
           /\ calls[c].hashValue = Null
           /\ calls[c].fetched = <<>>
           /\ calls[c].backendCalls = 0
           /\ calls[c].result = Undefined

\* match has returned for "h/resolve/main/c" while the backend holds content
C10_Witness ==
    \E c \in Calls :
        /\ calls[c].op = "match"
        /\ calls[c].url = UrlConfig
        /\ calls[c].result = Undefined
        /\ store # {}

\* C11: every payload in the backend is stored under the ContentHash
\* {algorithm: "SHA-256", value: digest} that a put computed from that very
\* payload, whatever the location of the request of that put.
C11_StoreKeyInvariant ==
    /\ \A c \in Calls :
          (calls[c].op = "put" /\ calls[c].hash # Null)
          => calls[c].hash =
                [algorithm |-> "SHA-256",
                 value |-> HashHex(SubtleDigest(calls[c].payload))]
    /\ \A e \in store :
          /\ \E c \in Calls : calls[c].op = "put" /\ calls[c].hash = e.hash
          /\ e.finalized =>
                /\ e.hash.algorithm = "SHA-256"
                /\ e.hash.value = HashHex(SubtleDigest(e.content))
                /\ \E c \in Calls :
                      /\ calls[c].op = "put"
                      /\ calls[c].payload = e.content
                      /\ calls[c].hash = e.hash

\* a put whose request has an eligible location has finalized its payload
C11_Witness ==
    \E c \in Calls :
        /\ calls[c].op = "put" /\ calls[c].pc = "done"
        /\ calls[c].result = Undefined
        /\ calls[c].url = UrlOnnx
        /\ calls[c].payload = <<1, 2>>
        /\ EntryOf(store, calls[c].hash).content = <<1, 2>>

\* C12: every response match returns has a payload whose digest is the hash
\* that was resolved for the request, and every finalized entry of the
\* backend has a content whose digest is its key.
C12_NoCachePoisoning ==
    /\ \A c \in Calls :
          ( /\ calls[c].op = "match"
            /\ calls[c].pc = "done"
            /\ calls[c].result.k = "response" )
          => /\ calls[c].hash.algorithm = "SHA-256"
             /\ calls[c].hash.value = calls[c].hashValue.v
             /\ HashHex(SubtleDigest(calls[c].result.body))
                   = calls[c].hashValue.v
    /\ \A e \in store :
          e.finalized => e.hash.value = HashHex(SubtleDigest(e.content))

\* the order of the operations of put
PutOrder ==
    <<"blob", "digest", "requestFileHandles:create", "createWritable",
      "write", "close">>

IsPrefix(s, t) == Len(s) <= Len(t) /\ s = SubSeq(t, 1, Len(s))

\* C13: the operations of one put start in the order read payload, compute
\* digest, request handle with create, open writable stream, write, close,
\* and put resolves only when all of them were done and the stream is closed.
C13_PutOrdering ==
    \A c \in Calls :
        calls[c].op = "put" =>
            /\ IsPrefix(calls[c].ops, PutOrder)
            /\ (calls[c].pc = "done" /\ calls[c].result = Undefined)
               => /\ calls[c].ops = PutOrder
                  /\ calls[c].stream = "closed"
                  /\ calls[c].err = "none"

\* a put has resolved
C13_Witness ==
    \E c \in Calls :
        /\ calls[c].op = "put" /\ calls[c].pc = "done"
        /\ calls[c].result = Undefined
        /\ Len(calls[c].ops) = 6

\* C14: a step of match leaves the backend as it is, whatever its outcome,
\* and match only fetches, requests a handle and reads it.
C14_MatchIsReadOnly ==
    [][\A c \in Calls :
          (calls'[c].op = "match" /\ calls'[c] # calls[c])
          => /\ store' = store
             /\ \A i \in 1..Len(calls'[c].ops) :
                   calls'[c].ops[i] \in
                      {"fetch", "requestFileHandles", "getFile"}]_vars

\* a match has missed and the backend has no entry for its hash, while it
\* has one for another hash
C14_Witness ==
    \E c \in Calls :
        /\ calls[c].op = "match" /\ calls[c].pc = "done"
        /\ calls[c].err = "notFound"
        /\ ~HasEntry(store, calls[c].hash)
        /\ store # {}

\* C15: when a call has settled, on success or on failure, no writable
\* stream it opened is still open.
C15_StreamsReleased ==
    \A c \in Calls : calls[c].pc = "done" => calls[c].stream # "open"

\* C16: a response of match carries the complete payload of a put for the
\* hash, never an empty or partial one, whatever a put for the same hash is
\* doing at the time.
C16_NoPartialPayload ==
    \A c \in Calls :
        ( /\ calls[c].op = "match"
          /\ calls[c].pc = "done"
          /\ calls[c].result.k = "response" )
        => \E d \in Calls :
              /\ calls[d].op = "put"
              /\ calls[d].hash = calls[c].hash
              /\ calls[d].payload = calls[c].result.body

\* C17: under every interleaving of puts, each finalized entry holds a
\* payload whose digest is its key, and a step of a put leaves the entries
\* of the other hashes as they are.
C17_ConcurrentPutsSafe ==
    [][/\ \A e \in store' :
             e.finalized => e.hash.value = HashHex(SubtleDigest(e.content))
       /\ \A c \in Calls :
             (calls'[c].op = "put" /\ calls'[c] # calls[c])
             => /\ \A e \in store : e.hash # calls'[c].hash => e \in store'
                /\ \A e \in store' : e.hash # calls'[c].hash => e \in store]_vars

\* two puts of different payloads with the same hash ran at the same time
\* and both resolved: the one that started first closed last
C17_Witness ==
    \E c, d \in Calls :
        /\ c < d
        /\ calls[c].op = "put" /\ calls[c].result = Undefined
        /\ calls[d].op = "put" /\ calls[d].result = Undefined
        /\ calls[c].hash = calls[d].hash
        /\ calls[c].payload # calls[d].payload
        /\ EntryOf(store, calls[c].hash).content = calls[c].payload

\* the location with the /resolve/ of its /resolve/main/onnx/ made /raw/
CompanionUrl(url) ==
    LET i == FirstIndexOf(url, EligiblePattern)
    IN  SubSeq(url, 1, i - 1) \o RawSegment
        \o SubSeq(url, i + Len(ResolveSegment), Len(url))

\* C18: for an eligible location _getFileHash reads the network exactly
\* once, at the location whose /resolve/ segment of /resolve/main/onnx/ is
\* replaced by /raw/, and never at the requested location.
C18_OneReadOfCompanion ==
    ( /\ res.pc # "idle"
      /\ \E i \in 1..Len(res.url) : StartsWithAt(res.url, i, EligiblePattern) )
    => /\ Len(res.fetched) = 1
       /\ res.fetched[1] = CompanionUrl(res.url)
       /\ res.fetched[1] # res.url

====
